---------------------------- MODULE Spec2Model ----------------------------
(***************************************************************************)
(* The trade-to-market alignment and whale-detection pipeline of           *)
(* kalshi-whale-static: the queryFn of useAlignedMarkets (lib/react-query, *)
(* kept here as src/unnamed/part_009, lines 42-217).                       *)
(*                                                                         *)
(* One refresh cycle: paginate the trade feed, look every distinct ticker  *)
(* up, build the lookup table, compute the whale threshold, fold the       *)
(* trades into one rollup per market, filter, return.                      *)
(*                                                                         *)
(* Representation.                                                         *)
(*  - A JavaScript object is a record; a property that is missing (or      *)
(*    undefined) is a field that is not in the record's DOMAIN.            *)
(*  - A JavaScript string that the code inspects (tickers, titles) is a    *)
(*    tuple of one-character strings, so that toLowerCase, trim and        *)
(*    includes are computed and not assumed.                               *)
(*  - A Map is the sequence of its entries in insertion order.             *)
(*  - Dollar amounts are fixed-point integers in units of 1/Scale dollar:  *)
(*    Scale = 800 makes both "/ 100" and "* 0.125" exact, so no rounding   *)
(*    is introduced by the model (IEEE doubles are exact on these values   *)
(*    as well: 0.125 is a power of two).                                   *)
(***************************************************************************)
EXTENDS Integers, Sequences, FiniteSets, TLC

(***************************************************************************)
(* Bounds of the model.                                                    *)
(***************************************************************************)
\* The most trades the upstream hands out over one cycle, all pages together.
MaxTrades == 2

(***************************************************************************)
(* Program constants.                                                      *)
(***************************************************************************)
MAX_PAGES_TO_FETCH == 5

Scale == 100 * 8

(***************************************************************************)
(* Strings.                                                                *)
(***************************************************************************)
UpperCase == <<"A","B","C","D","E","F","G","H","I","J","K","L","M","N","O","P","Q","R","S","T","U","V","W","X","Y","Z">>
LowerCase == <<"a","b","c","d","e","f","g","h","i","j","k","l","m","n","o","p","q","r","s","t","u","v","w","x","y","z">>
WhiteSpace == {" ", "\t", "\n"}

\* String.prototype.toLowerCase
ToLowerCase(s) ==
    [k \in 1..Len(s) |->
        IF \E u \in 1..Len(UpperCase) : UpperCase[u] = s[k]
        THEN LowerCase[CHOOSE u \in 1..Len(UpperCase) : UpperCase[u] = s[k]]
        ELSE s[k]]

\* String.prototype.includes
Includes(s, sub) ==
    \E k \in 0..(Len(s) - Len(sub)) : SubSeq(s, k + 1, k + Len(sub)) = sub

\* String.prototype.trim
RECURSIVE TrimStart(_)
TrimStart(s) ==
    IF s # <<>> /\ Head(s) \in WhiteSpace THEN TrimStart(Tail(s)) ELSE s

RECURSIVE TrimEnd(_)
TrimEnd(s) ==
    IF s # <<>> /\ s[Len(s)] \in WhiteSpace
    THEN TrimEnd(SubSeq(s, 1, Len(s) - 1)) ELSE s

Trim(s) == TrimEnd(TrimStart(s))

cryptoKeywords ==
    <<
      <<"b","t","c">>,
      <<"e","t","h">>,
      <<"c","r","y","p","t","o">>,
      <<"b","i","t","c","o","i","n">>,
      <<"e","t","h","e","r","e","u","m">>,
      <<"s","o","l">>,
      <<"s","o","l","a","n","a">>,
      <<"b","c","h">>,
      <<"a","d","a">>,
      <<"c","a","r","d","a","n","o">>,
      <<"m","a","t","i","c">>,
      <<"p","o","l","y","g","o","n">>,
      <<"d","o","t">>,
      <<"p","o","l","k","a","d","o","t">>,
      <<"l","i","n","k">>,
      <<"c","h","a","i","n","l","i","n","k">>,
      <<"l","t","c">>,
      <<"l","i","t","e","c","o","i","n">>,
      <<"x","r","p">>
    >>

UnknownTitle == <<"U","n","k","n","o","w","n"," ","T","i","t","l","e">>

(***************************************************************************)
(* JavaScript values.                                                      *)
(***************************************************************************)
\* The value undefined, where an object is expected.
Undefined == [undefined |-> TRUE]

HasProp(o, f) == o # Undefined /\ f \in DOMAIN o

\* (o.f || 0) for a numeric property
OrZero(o, f) == IF HasProp(o, f) THEN o[f] ELSE 0

\* (o.f || dflt) for a string property: the empty string is falsy
OrString(o, f, dflt) == IF HasProp(o, f) /\ o[f] # <<>> THEN o[f] ELSE dflt

\* { ...a, ...b }: b's properties win; spreading undefined adds nothing
Spread(a, b) ==
    IF b = Undefined THEN a
    ELSE [f \in DOMAIN a \cup DOMAIN b |-> IF f \in DOMAIN b THEN b[f] ELSE a[f]]

\* o with o.f = src.g, a missing src.g leaving o.f undefined
Assign(o, f, src, g) ==
    IF HasProp(src, g)
    THEN [h \in DOMAIN o \cup {f} |-> IF h = f THEN src[g] ELSE o[h]]
    ELSE [h \in DOMAIN o \ {f} |-> o[h]]

(***************************************************************************)
(* Map: the sequence of its entries, in insertion order.                   *)
(***************************************************************************)
MapHas(m, k) == \E n \in 1..Len(m) : m[n].key = k

MapGet(m, k) ==
    IF MapHas(m, k)
    THEN m[CHOOSE n \in 1..Len(m) : m[n].key = k].value
    ELSE Undefined

\* Map.prototype.set: an existing key keeps its place
MapSet(m, k, v) ==
    IF MapHas(m, k)
    THEN [n \in 1..Len(m) |-> IF m[n].key = k THEN [key |-> k, value |-> v] ELSE m[n]]
    ELSE Append(m, [key |-> k, value |-> v])

MapKeys(m) == {m[n].key : n \in 1..Len(m)}

\* Array.from(m.values())
MapValues(m) == [n \in 1..Len(m) |-> m[n].value]


(***************************************************************************)
(* What the upstream can answer, drawn from small sets.                    *)
(***************************************************************************)
KXBTC == <<"K","X","B","T","C">>
KXOIL == <<"K","X","O","I","L">>
Tickers == {KXBTC, KXOIL}

\* Trades as the trades endpoint returns them (types/index.ts, Trade):
\* price in cents, count in contracts, created_time as an instant.
TradeSet ==
    [ticker : Tickers, count : {1, 10}, price : {60}, created_time : {2}]
    \cup [ticker : Tickers, count : {1}, price : {60}, created_time : {1}]

CursorSet == {<<"c","1">>, <<"c","&","2">>}

RECURSIVE SeqsUpTo(_, _)
SeqsUpTo(S, n) ==
    IF n = 0 THEN {<<>>}
    ELSE LET shorter == SeqsUpTo(S, n - 1)
         IN  shorter \cup {Append(q, x) : q \in {r \in shorter : Len(r) = n - 1}, x \in S}

\* The bodies of a 2xx answer of /api/kalshi/trades with at most n trades:
\* trades may be missing, cursor may be missing or empty (end of data).
TradePages(n) ==
    {[trades |-> t, cursor |-> c] : t \in SeqsUpTo(TradeSet, n), c \in CursorSet \cup {<<>>}}
    \cup {[trades |-> t] : t \in SeqsUpTo(TradeSet, n)}
    \cup {[cursor |-> c] : c \in CursorSet}

TitleEth == <<"E","t","h">>
TitleOil == <<"O","i","l">>
TitleBlank == <<" ">>

\* Market records of GET /markets/{ticker}: with a 24-hour notional of 480
\* dollars (threshold 60), of 500 dollars (threshold 62.5), and of none
MarketRecords ==
    {[title |-> TitleEth, volume |-> 7, volume_24h |-> 1000, last_price |-> 48],
     [title |-> TitleOil, volume |-> 7, volume_24h |-> 0, last_price |-> 50],
     [title |-> TitleBlank, volume |-> 7, volume_24h |-> 1000, last_price |-> 50],
     [title |-> UnknownTitle, volume |-> 7, volume_24h |-> 1000, last_price |-> 50]}

\* Event records of GET /events/{ticker}: no price, no volume
EventRecords == [title : {TitleEth, <<>>}]

\* The bodies of a 2xx answer of /api/kalshi/market/{ticker}
LookupBodies ==
    {[market |-> m] : m \in MarketRecords}
    \cup {[event |-> e] : e \in EventRecords}
    \cup {[message |-> "ok"]}

\* How a promise of fetcher(...) settles
Fulfilled(v) == [status |-> "fulfilled", value |-> v]
Rejected == [status |-> "rejected"]
Pending == [status |-> "pending"]

(***************************************************************************)
(* State of one refresh cycle.                                             *)
(***************************************************************************)
VARIABLES
    pc,               \* where the queryFn stands
    i,                \* the pagination loop's index
    currentCursor,    \* <<>> is null
    allTrades,        \* the accumulator
    inFlightCursor,   \* the cursor the upstream reads in the request in flight (<<>>: none)
    pagesRequested,   \* history: trade-page requests issued
    pageFailed,       \* history: a trade-page request failed
    endOfData,        \* history: a page came without a cursor to go on with
    received,         \* history: the trades of the pages that arrived, in order
    marketTickers,    \* the distinct tickers, in first-seen order
    marketInfoResults,\* one promise state per ticker, by index
    settled,          \* history: <<ticker, outcome>> in the order the lookups settled
    marketInfoCache,  \* Map ticker -> market data
    whaleThreshold,   \* in 1/Scale dollars
    alignedMarkets,   \* the trades merged with their market data
    next,             \* the fold's position in alignedMarkets
    marketsMap,       \* Map ticker -> rollup
    query,            \* what useQuery holds: status, data
    run,              \* which run of the pipeline this is: the first or the second
    first,            \* the upstream data and the output of the first run
    mono,             \* inputs and results of the threshold computations compared
    suspended,        \* a second run of the queryFn, parked at one of its awaits
    proxy,            \* a request to the market proxy route and what it has done
    analytics,        \* the state of AnalyticsTab and its requests in flight
    tab               \* the state of MarketTab: the list's length, the page

vars == <<pc, i, currentCursor, allTrades, inFlightCursor, pagesRequested,
          pageFailed, endOfData, received, marketTickers, marketInfoResults, settled, marketInfoCache,
          whaleThreshold, alignedMarkets, next, marketsMap, query>>

paginationVars == <<i, currentCursor, allTrades, inFlightCursor, pagesRequested,
                    pageFailed, endOfData, received>>
resolverVars == <<marketTickers, marketInfoResults, settled>>
engineVars == <<marketInfoCache, whaleThreshold, alignedMarkets, next, marketsMap>>
rebuildVars == <<run, first>>
sideVars == <<suspended, proxy, analytics, tab>>
auxVars == <<rebuildVars, mono, sideVars>>
allVars == <<vars, auxVars>>

\* The queryFn is entered
CycleInit ==
    /\ pc = "paginate"
    /\ i = 0
    /\ currentCursor = <<>>
    /\ allTrades = <<>>
    /\ inFlightCursor = <<>>
    /\ pagesRequested = 0
    /\ pageFailed = FALSE
    /\ endOfData = FALSE
    /\ received = <<>>
    /\ marketTickers = <<>>
    /\ marketInfoResults = <<>>
    /\ settled = <<>>
    /\ marketInfoCache = <<>>
    /\ whaleThreshold = 0
    /\ alignedMarkets = <<>>
    /\ next = 1
    /\ marketsMap = <<>>
    /\ query = [status |-> "pending"]

\* No run before this one, no threshold comparison under way
NoFirst == [status |-> "none"]
NoMono == [stage |-> "idle"]

\* No second run, no proxy request, no tab mounted
SideIdle ==
    /\ suspended = [status |-> "none"]
    /\ proxy = [stage |-> "idle"]
    /\ analytics = [stage |-> "idle"]
    /\ tab = [stage |-> "idle"]

Init ==
    /\ CycleInit
    /\ run = 1
    /\ first = NoFirst
    /\ mono = NoMono
    /\ SideIdle

(***************************************************************************)
(* Trade Paginator (lines 53-77).                                          *)
(***************************************************************************)
\* The characters in play that encodeURIComponent escapes, with their codes
PercentCodes ==
    [c \in {"&", "=", "+", "%", " "} |->
        CASE c = "&" -> <<"%", "2", "6">>
          [] c = "=" -> <<"%", "3", "D">>
          [] c = "+" -> <<"%", "2", "B">>
          [] c = "%" -> <<"%", "2", "5">>
          [] c = " " -> <<"%", "2", "0">>]

\* encodeURIComponent (line 62)
RECURSIVE EncodeURIComponent(_)
EncodeURIComponent(s) ==
    IF s = <<>> THEN <<>>
    ELSE (IF Head(s) \in DOMAIN PercentCodes THEN PercentCodes[Head(s)] ELSE <<Head(s)>>)
         \o EncodeURIComponent(Tail(s))

\* The decoding URLSearchParams applies to a name or a value: + is a space,
\* %XX is the character of that code
RECURSIVE FormDecode(_)
FormDecode(s) ==
    IF s = <<>> THEN <<>>
    ELSE IF Head(s) = "+" THEN <<" ">> \o FormDecode(Tail(s))
    ELSE IF /\ Head(s) = "%"
            /\ Len(s) >= 3
            /\ \E c \in DOMAIN PercentCodes : PercentCodes[c] = SubSeq(s, 1, 3)
    THEN <<CHOOSE c \in DOMAIN PercentCodes : PercentCodes[c] = SubSeq(s, 1, 3)>>
         \o FormDecode(SubSeq(s, 4, Len(s)))
    ELSE <<Head(s)>> \o FormDecode(Tail(s))

\* s cut at every sep
RECURSIVE SplitOn(_, _)
SplitOn(s, sep) ==
    IF \A k \in 1..Len(s) : s[k] # sep THEN <<s>>
    ELSE LET at == CHOOSE k \in 1..Len(s) : s[k] = sep /\ \A h \in 1..(k - 1) : s[h] # sep
         IN  <<SubSeq(s, 1, at - 1)>> \o SplitOn(SubSeq(s, at + 1, Len(s)), sep)

\* A query string as URLSearchParams reads it: the decoded name and value of
\* each pair, the value starting after the first =
SearchParams(queryString) ==
    LET pairs == SelectSeq(SplitOn(queryString, "&"), LAMBDA p : p # <<>>)
    IN  [n \in 1..Len(pairs) |->
            [name  |-> FormDecode(SplitOn(pairs[n], "=")[1]),
             value |-> FormDecode(SubSeq(pairs[n], Len(SplitOn(pairs[n], "=")[1]) + 2,
                                         Len(pairs[n])))]]

\* URLSearchParams.get: the first value of that name; <<>> stands for null
\* and for the empty string, both falsy
SearchParamsGet(queryString, name) ==
    LET named == SelectSeq(SearchParams(queryString), LAMBDA p : p.name = name)
    IN  IF named = <<>> THEN <<>> ELSE named[1].value

cursorEquals == <<"&", "c", "u", "r", "s", "o", "r", "=">>
limitEquals == <<"l", "i", "m", "i", "t", "=">>

\* Lines 60-63: the query of the request the client sends to the trades route
FetchUrlQuery(cursor) ==
    limitEquals \o <<"1", "0", "0", "0">>
        \o (IF cursor # <<>> THEN cursorEquals \o EncodeURIComponent(cursor) ELSE <<>>)

\* trades/route.ts lines 19-29: the query of the request the route sends on
KalshiUrlQuery(requestQuery) ==
    LET limit  == IF SearchParamsGet(requestQuery, <<"l", "i", "m", "i", "t">>) # <<>>
                  THEN SearchParamsGet(requestQuery, <<"l", "i", "m", "i", "t">>)
                  ELSE <<"1", "0", "0">>
        cursor == SearchParamsGet(requestQuery, <<"c", "u", "r", "s", "o", "r">>)
    IN  limitEquals \o limit \o (IF cursor # <<>> THEN cursorEquals \o cursor ELSE <<>>)

\* The cursor the upstream reads in the request that the client's cursor
\* leads to
UpstreamCursor(cursor) ==
    SearchParamsGet(KalshiUrlQuery(FetchUrlQuery(cursor)), <<"c", "u", "r", "s", "o", "r">>)

\* That conversion for each cursor a cycle can hold (<<>> is no cursor)
UpstreamCursors == [cursor \in CursorSet \cup {<<>>} |-> UpstreamCursor(cursor)]

\* Mutant: the loop test off by one
LoopContinuesInclusive(n) == n <= MAX_PAGES_TO_FETCH

\* The loop leaves after the page that made i reach the bound.
LoopContinues(n) == n < MAX_PAGES_TO_FETCH

\* Lines 59-66: the loop test, the URL, the request.
RequestTradePage ==
    /\ pc = "paginate"
    /\ LoopContinues(i)
    /\ inFlightCursor' = UpstreamCursors[currentCursor]
    /\ pagesRequested' = pagesRequested + 1
    /\ pc' = "awaitPage"
    /\ UNCHANGED <<i, currentCursor, allTrades, pageFailed, endOfData, received>>
    /\ UNCHANGED <<resolverVars, engineVars, query>>

\* allTrades after line 67
PushTrades(acc, tradeData) ==
    IF HasProp(tradeData, "trades") THEN acc \o tradeData.trades ELSE acc

\* Lines 68-69: a truthy cursor carries on, anything else breaks
HasNextCursor(tradeData) == HasProp(tradeData, "cursor") /\ tradeData.cursor # <<>>

\* Lines 66-69 and the loop's i++: the page arrives.
TradePageArrives ==
    /\ pc = "awaitPage"
    /\ \E tradeData \in TradePages(MaxTrades - Len(allTrades)) :
        /\ allTrades' = PushTrades(allTrades, tradeData)
        /\ received' = received \o (IF "trades" \in DOMAIN tradeData THEN tradeData.trades ELSE <<>>)
        /\ endOfData' = (endOfData \/ ~("cursor" \in DOMAIN tradeData /\ tradeData.cursor # <<>>))
        /\ IF HasNextCursor(tradeData) /\ LoopContinues(i + 1)
           THEN /\ currentCursor' = tradeData.cursor
                /\ i' = i + 1
                /\ pc' = "paginate"
           ELSE \* break, or the bound: the loop's variables go out of use
                /\ currentCursor' = <<>>
                /\ i' = 0
                /\ pc' = "resolve"
    /\ inFlightCursor' = <<>>
    /\ UNCHANGED <<pagesRequested, pageFailed>>
    /\ UNCHANGED <<resolverVars, engineVars, query>>

\* Mutant: the catch rethrows
AfterPageErrorRethrows == "done"

\* What the catch of lines 70-73 leads to
AfterPageError == "resolve"

\* Lines 70-73: fetcher throws (network error, non-2xx, bad JSON).
TradePageFails ==
    /\ pc = "awaitPage"
    /\ pageFailed' = TRUE
    /\ currentCursor' = <<>>
    /\ i' = 0
    /\ inFlightCursor' = <<>>
    /\ pc' = AfterPageError
    /\ query' = IF AfterPageError = "done" THEN [status |-> "error"] ELSE query
    /\ UNCHANGED <<allTrades, pagesRequested, endOfData, received>>
    /\ UNCHANGED <<resolverVars, engineVars>>

(***************************************************************************)
(* Market Resolver (lines 77-98).                                          *)
(***************************************************************************)
\* [...new Set(xs)]: the distinct elements in first-seen order
RECURSIVE Unique(_)
Unique(xs) ==
    IF xs = <<>> THEN <<>>
    ELSE LET init == Unique(SubSeq(xs, 1, Len(xs) - 1))
             last == xs[Len(xs)]
         IN  IF \E n \in 1..Len(init) : init[n] = last THEN init ELSE Append(init, last)

\* Mutant: one ticker per trade, repeated or not
MarketTickersPerTrade(trades) == [n \in 1..Len(trades) |-> trades[n].ticker]

\* Line 80
MarketTickersOf(trades) == Unique([n \in 1..Len(trades) |-> trades[n].ticker])

\* Lines 77-87: every lookup is started, then all of them are awaited.
StartLookups ==
    /\ pc = "resolve"
    /\ marketTickers' = MarketTickersOf(allTrades)
    /\ marketInfoResults' = [n \in 1..Len(marketTickers') |-> Pending]
    /\ pc' = "awaitLookups"
    /\ UNCHANGED <<settled, paginationVars, engineVars, query>>

\* Mutant: the results are collected in the order the promises settle
SettledAtNextFree(results, n, outcome) ==
    [results EXCEPT ![CHOOSE k \in 1..Len(results) :
                        /\ results[k] = Pending
                        /\ \A h \in 1..(k - 1) : results[h] # Pending] = outcome]

\* Promise.allSettled: the result of promise n is element n, whenever it settles
SettledAt(results, n, outcome) == [results EXCEPT ![n] = outcome]

\* One lookup settles: fetcher resolves with the body or throws.
LookupSettles ==
    /\ pc = "awaitLookups"
    /\ \E n \in 1..Len(marketInfoResults) :
        /\ marketInfoResults[n] = Pending
        /\ \E outcome \in {Rejected} \cup {Fulfilled(b) : b \in LookupBodies} :
            /\ marketInfoResults' = SettledAt(marketInfoResults, n, outcome)
            /\ settled' = Append(settled, <<marketTickers[n], outcome>>)
    /\ UNCHANGED <<pc, marketTickers, paginationVars, engineVars, query>>

\* Line 94: result.value.market || result.value.event
MarketDataOf(body) ==
    IF HasProp(body, "market") THEN body.market
    ELSE IF HasProp(body, "event") THEN body.event
    ELSE Undefined

\* Line 92: which results enter the cache
EntersCache(result) == result.status = "fulfilled"

\* Lines 90-97: the forEach over the settled results, from index n on
RECURSIVE BuildCache(_, _, _, _)
BuildCache(cache, results, tickers, n) ==
    IF n > Len(results) THEN cache
    ELSE BuildCache(
            IF EntersCache(results[n])
            THEN MapSet(cache, tickers[n], MarketDataOf(results[n].value))
            ELSE cache,
            results, tickers, n + 1)

(***************************************************************************)
(* Alignment & Rollup Engine, pass 1: the threshold (lines 103-112).       *)
(***************************************************************************)
\* Mutant: priced at the other side of the contract, 100 cents less the price
MarketNotionalVolume24hOtherSide(market) ==
    ((OrZero(market, "volume_24h") * (100 - OrZero(market, "last_price"))) * Scale) \div 100

\* Line 105, in 1/Scale dollars
MarketNotionalVolume24h(market) ==
    ((OrZero(market, "volume_24h") * OrZero(market, "last_price")) * Scale) \div 100

\* Lines 103-109: the running maximum over the cache's values, from index n on
RECURSIVE MaxNotionalVolume(_, _, _)
MaxNotionalVolume(markets, n, maxSoFar) ==
    IF n > Len(markets) THEN maxSoFar
    ELSE MaxNotionalVolume(
            markets, n + 1,
            IF MarketNotionalVolume24h(markets[n]) > maxSoFar
            THEN MarketNotionalVolume24h(markets[n])
            ELSE maxSoFar)

\* Mutant: a tenth of the leader, the ratio of the earlier whale rule
WhaleThresholdTenth(maxNotionalVolume) == (maxNotionalVolume * 100) \div 1000

\* Line 112: maxNotionalVolume * 0.125
WhaleThresholdOf(maxNotionalVolume) == (maxNotionalVolume * 125) \div 1000

\* Line 105 reads a property of every value: undefined there is a TypeError
ThresholdThrows(cache) == \E n \in 1..Len(cache) : cache[n].value = Undefined

(***************************************************************************)
(* Pass 2: align and fold (lines 119-192).                                 *)
(***************************************************************************)
\* Lines 120-127
AlignTrade(trade, cache) ==
    Spread(Spread(trade, MapGet(cache, trade.ticker)),
           [id |-> IF HasProp(trade, "trade_id") THEN trade.trade_id
                   ELSE <<trade.ticker, trade.created_time>>])

\* Line 141, in 1/Scale dollars
TradeNotionalValue(alignedTrade) ==
    (OrZero(alignedTrade, "count") * OrZero(alignedTrade, "price")) * Scale

\* Mutant: a trade at the threshold counts
IsWhaleTradeAtOrAbove(alignedTrade, threshold) ==
    (OrZero(alignedTrade, "count") * OrZero(alignedTrade, "price")) * Scale >= threshold

\* Line 144
IsWhaleTrade(alignedTrade, threshold) == TradeNotionalValue(alignedTrade) > threshold

\* Mutant: the fold without its guard, as in the earlier variant of the hook
SkipsTradeNever(cache, alignedTrade) == FALSE

\* Lines 134-136
SkipsTrade(cache, alignedTrade) == ~MapHas(cache, alignedTrade.ticker)

\* Lines 150-178: the rollup of a market seen for the first time. The fields
\* copied through for display only (category, sub-titles, status, times,
\* bids) are left out; question repeats title.
NewRollup(alignedTrade, isWhaleTrade) ==
    LET base == [id            |-> IF HasProp(alignedTrade, "market_id")
                                   THEN alignedTrade.market_id ELSE alignedTrade.ticker,
                 title         |-> OrString(alignedTrade, "title", UnknownTitle),
                 ticker_symbol |-> alignedTrade.ticker,
                 last_update   |-> alignedTrade.created_time,
                 high_volume   |-> isWhaleTrade]
    IN  Assign(Assign(Assign(base, "last_price", alignedTrade, "last_price"),
                      "volume", alignedTrade, "volume"),
               "volume_24h", alignedTrade, "volume_24h")

\* Mutant: the flag is assigned from every folded trade
NextHighVolumeOverwrites(was, isWhaleTrade) == isWhaleTrade

\* Lines 185-187
NextHighVolume(was, isWhaleTrade) == IF isWhaleTrade THEN TRUE ELSE was

\* Lines 181-190: the rollup of a market seen before
UpdateRollup(existingMarket, alignedTrade, isWhaleTrade) ==
    LET a == Assign(existingMarket, "volume", alignedTrade, "volume")
        b == [a EXCEPT !.high_volume = NextHighVolume(@, isWhaleTrade)]
        c == Assign(b, "last_price", alignedTrade, "last_price")
    IN  [c EXCEPT !.last_update = alignedTrade.created_time]

\* Mutant: every folded trade adds an entry
SetRollupAppends(map, ticker, rollup) == Append(map, [key |-> ticker, value |-> rollup])

\* Mutant: a new entry goes in front of the older ones
SetRollupInFront(map, ticker, rollup) ==
    IF MapHas(map, ticker) THEN MapSet(map, ticker, rollup)
    ELSE <<[key |-> ticker, value |-> rollup]>> \o map

\* Map.prototype.set at lines 150 and, through the reference, 181-190
SetRollup(map, ticker, rollup) == MapSet(map, ticker, rollup)

\* Lines 132-192: one iteration of the fold
FoldOne(map, alignedTrade, cache, threshold) ==
    IF SkipsTrade(cache, alignedTrade) THEN map
    ELSE IF ~MapHas(map, alignedTrade.ticker)
    THEN SetRollup(map, alignedTrade.ticker,
                   NewRollup(alignedTrade, IsWhaleTrade(alignedTrade, threshold)))
    ELSE SetRollup(map, alignedTrade.ticker,
                   UpdateRollup(MapGet(map, alignedTrade.ticker), alignedTrade,
                                IsWhaleTrade(alignedTrade, threshold)))

(***************************************************************************)
(* Pass 3: the output filters (lines 194-214).                             *)
(***************************************************************************)
\* Mutant: a title of blanks passes
IsTitledUntrimmed(market) ==
    /\ HasProp(market, "title")
    /\ market.title # <<>>
    /\ market.title # UnknownTitle

\* Lines 197-199
IsTitled(market) ==
    /\ HasProp(market, "title")
    /\ market.title # <<>>
    /\ Trim(market.title) # <<>>
    /\ market.title # UnknownTitle

\* Lines 202-206
IsCrypto(market) ==
    LET ticker == IF HasProp(market, "ticker_symbol")
                  THEN ToLowerCase(market.ticker_symbol) ELSE <<>>
        title  == IF HasProp(market, "title") THEN ToLowerCase(market.title) ELSE <<>>
    IN  \E k \in 1..Len(cryptoKeywords) :
            Includes(ticker, cryptoKeywords[k]) \/ Includes(title, cryptoKeywords[k])

\* Lines 194-206: Array.prototype.filter, twice
FilteredCryptoMarkets(map) == SelectSeq(SelectSeq(MapValues(map), IsTitled), IsCrypto)

\* Lines 210-214; the timestamp is the wall clock and is left out
MarketsResponse(map) ==
    [markets |-> FilteredCryptoMarkets(map), count |-> Len(FilteredCryptoMarkets(map))]

(***************************************************************************)
(* useWhaleAlerts (lines 225-256): the alerts derived from the markets.    *)
(***************************************************************************)
\* Mutant: every market listed raises an alert
IsHighVolumeAlways(m) == TRUE

\* Line 229: the filter's test
IsHighVolume(m) == HasProp(m, "high_volume") /\ m.high_volume = TRUE

\* Lines 230-240; growth_multiple 3.5 is written in tenths, the description
\* as its two parts
WhaleAlertOf(m) ==
    [id            |-> <<"h", "v", "-">> \o m.id,
     type          |-> "volume_surge",
     ticker        |-> OrString(m, "ticker_symbol", <<"N", "/", "A">>),
     severity      |-> "medium",
     confidence    |-> 80,
     market_impact |-> "high",
     data          |-> Assign([growth_multiple |-> 35], "current_value", m, "volume"),
     timestamp     |-> m.last_update,
     description   |-> <<"Whale activity detected on ", m.title>>]

\* Line 228: marketData?.markets || []
MarketsOf(queryState) ==
    IF HasProp(queryState, "data") /\ HasProp(queryState.data, "markets")
    THEN queryState.data.markets ELSE <<>>

\* Lines 228-240
WhaleAlertsOf(queryState) ==
    [k \in 1..Len(SelectSeq(MarketsOf(queryState), IsHighVolume)) |->
        WhaleAlertOf(SelectSeq(MarketsOf(queryState), IsHighVolume)[k])]

\* Lines 242-255: what the hook returns; the static detection_types and
\* thresholds and the wall-clock timestamp are left out
WhaleAlertsResponse(queryState) ==
    [data   |-> [alerts              |-> WhaleAlertsOf(queryState),
                 count               |-> Len(WhaleAlertsOf(queryState)),
                 whale_signals_count |-> Len(WhaleAlertsOf(queryState)),
                 high_volume_count   |-> Len(WhaleAlertsOf(queryState))],
     status |-> "success"]

(***************************************************************************)
(* The cycle after the lookups (lines 87-214).                             *)
(***************************************************************************)
\* Mutant: the wait ends only when every lookup has succeeded
AllFulfilled == \A n \in 1..Len(marketInfoResults) : marketInfoResults[n] \notin {Pending, Rejected}

\* Promise.allSettled at line 87: no promise is pending any more
AllSettled == \A n \in 1..Len(marketInfoResults) : marketInfoResults[n] # Pending

\* Lines 87-127: allSettled resolves; cache, threshold and alignment follow
\* without suspension. A TypeError at line 105 rejects the queryFn's promise.
BuildAndAlign ==
    /\ pc = "awaitLookups"
    /\ AllSettled
    /\ marketInfoCache' = BuildCache(<<>>, marketInfoResults, marketTickers, 1)
    /\ IF ThresholdThrows(marketInfoCache')
       THEN /\ pc' = "done"
            /\ query' = [status |-> "error"]
            /\ UNCHANGED <<whaleThreshold, alignedMarkets>>
       ELSE /\ whaleThreshold' =
                  WhaleThresholdOf(MaxNotionalVolume(MapValues(marketInfoCache'), 1, 0))
            /\ alignedMarkets' =
                  [n \in 1..Len(allTrades) |-> AlignTrade(allTrades[n], marketInfoCache')]
            /\ pc' = "fold"
            /\ UNCHANGED query
    /\ UNCHANGED <<next, marketsMap, paginationVars, resolverVars>>

\* Lines 132-192: one trade is folded
FoldTrade ==
    /\ pc = "fold"
    /\ next <= Len(alignedMarkets)
    /\ marketsMap' = FoldOne(marketsMap, alignedMarkets[next], marketInfoCache, whaleThreshold)
    /\ next' = next + 1
    /\ UNCHANGED <<pc, marketInfoCache, whaleThreshold, alignedMarkets>>
    /\ UNCHANGED <<paginationVars, resolverVars, query>>

\* Lines 194-214: the filters and the return
Finish ==
    /\ pc = "fold"
    /\ next > Len(alignedMarkets)
    /\ query' = [status |-> "success", data |-> MarketsResponse(marketsMap)]
    /\ pc' = "done"
    /\ UNCHANGED <<paginationVars, resolverVars, engineVars>>

Next ==
    \/ RequestTradePage /\ UNCHANGED auxVars
    \/ TradePageArrives /\ UNCHANGED auxVars
    \/ TradePageFails /\ UNCHANGED auxVars
    \/ StartLookups /\ UNCHANGED auxVars
    \/ LookupSettles /\ UNCHANGED auxVars
    \/ BuildAndAlign /\ UNCHANGED auxVars
    \/ FoldTrade /\ UNCHANGED auxVars
    \/ Finish /\ UNCHANGED auxVars

Spec == Init /\ [][Next]_allVars

\* Every network call returns or fails in the end, and the event loop runs
\* whatever continuation is ready: no step of the cycle waits forever.
LiveSpec == Spec /\ WF_allVars(Next)

(***************************************************************************)
(* The pipeline run a second time against the same upstream data.          *)
(***************************************************************************)
\* The queryFn has returned or thrown; the pipeline is run again from the
\* start, and what the upstream answered in the first run is kept.
RunAgain ==
    /\ pc = "done"
    /\ run = 1
    /\ first' = [status         |-> "recorded",
                 received       |-> received,
                 pagesRequested |-> pagesRequested,
                 pageFailed     |-> pageFailed,
                 endOfData      |-> endOfData,
                 settled        |-> settled,
                 query          |-> query]
    /\ run' = 2
    /\ pc' = "paginate"
    /\ i' = 0
    /\ currentCursor' = <<>>
    /\ allTrades' = <<>>
    /\ inFlightCursor' = <<>>
    /\ pagesRequested' = 0
    /\ pageFailed' = FALSE
    /\ endOfData' = FALSE
    /\ received' = <<>>
    /\ marketTickers' = <<>>
    /\ marketInfoResults' = <<>>
    /\ settled' = <<>>
    /\ marketInfoCache' = <<>>
    /\ whaleThreshold' = 0
    /\ alignedMarkets' = <<>>
    /\ next' = 1
    /\ marketsMap' = <<>>
    /\ query' = [status |-> "pending"]
    /\ UNCHANGED <<mono, sideVars>>

IsPrefix(s, t) == Len(s) <= Len(t) /\ SubSeq(t, 1, Len(s)) = s

\* The upstream answers the second run as it answered the first: the same
\* trades over the same number of pages, failing where it failed, and the
\* same outcome for every identifier looked up, in whatever order.
SameUpstream ==
    run = 2 =>
        /\ IsPrefix(received, first.received)
        /\ pagesRequested <= first.pagesRequested
        /\ pageFailed => first.pageFailed /\ pagesRequested = first.pagesRequested
        /\ pc \notin {"paginate", "awaitPage"} =>
               /\ received = first.received
               /\ pagesRequested = first.pagesRequested
               /\ pageFailed = first.pageFailed
               /\ endOfData = first.endOfData
        /\ \A k \in 1..Len(settled) :
               \E h \in 1..Len(first.settled) : first.settled[h] = settled[k]

\* The trade pages a run asks for in the runs compared
RebuildPages == 2

RebuildNext ==
    \/ RequestTradePage /\ pagesRequested < RebuildPages /\ UNCHANGED auxVars
    \/ TradePageArrives /\ UNCHANGED auxVars /\ SameUpstream'
    \/ TradePageFails /\ UNCHANGED auxVars /\ SameUpstream'
    \/ StartLookups /\ UNCHANGED auxVars
    \/ LookupSettles /\ UNCHANGED auxVars /\ SameUpstream'
    \/ BuildAndAlign /\ UNCHANGED auxVars
    \/ FoldTrade /\ UNCHANGED auxVars
    \/ Finish /\ UNCHANGED auxVars
    \/ RunAgain

RebuildSpec == Init /\ [][RebuildNext]_allVars

(***************************************************************************)
(* Pass 1 on its own: the threshold of a set of resolved markets, and of   *)
(* the same set with one market's 24-hour figures raised.                  *)
(***************************************************************************)
\* The markets a threshold is computed from
MaxMarkets == 2

\* Market data as far as line 105 reads it: 24-hour volume and last price,
\* either of which may be missing or zero.
ThresholdMarkets ==
    [volume_24h : {0, 1000, 2000}, last_price : {0, 48, 50}]
        \cup [volume_24h : {0, 1000, 2000}]
        \cup [last_price : {0, 48, 50}]
        \cup {[title |-> TitleEth]}

\* Lines 103-112 for the values of a cache
ThresholdOfMarkets(markets) == WhaleThresholdOf(MaxNotionalVolume(markets, 1, 0))

\* higher is lower with its 24-hour volume or its last price raised
Raises(lower, higher) ==
    /\ OrZero(higher, "volume_24h") >= OrZero(lower, "volume_24h")
    /\ OrZero(higher, "last_price") >= OrZero(lower, "last_price")
    /\ \/ OrZero(higher, "volume_24h") > OrZero(lower, "volume_24h")
       \/ OrZero(higher, "last_price") > OrZero(lower, "last_price")

ThresholdInit ==
    /\ CycleInit
    /\ run = 1
    /\ first = NoFirst
    /\ SideIdle
    /\ mono \in {[stage |-> "resolved", markets |-> ms] :
                    ms \in SeqsUpTo(ThresholdMarkets, MaxMarkets)}

\* Pass 1 over the markets
ComputeThreshold ==
    /\ mono.stage = "resolved"
    /\ mono' = [stage     |-> "computed",
                markets   |-> mono.markets,
                threshold |-> ThresholdOfMarkets(mono.markets)]
    /\ UNCHANGED <<vars, rebuildVars, sideVars>>

\* Pass 1 over the same markets, one of them raised
ComputeThresholdRaised ==
    /\ mono.stage = "computed"
    /\ \E n \in 1..Len(mono.markets) : \E higher \in ThresholdMarkets :
        /\ Raises(mono.markets[n], higher)
        /\ mono' = [stage     |-> "compared",
                    markets   |-> mono.markets,
                    threshold |-> mono.threshold,
                    raised    |-> [mono.markets EXCEPT ![n] = higher],
                    thresholdRaised |->
                        ThresholdOfMarkets([mono.markets EXCEPT ![n] = higher])]
    /\ UNCHANGED <<vars, rebuildVars, sideVars>>

ThresholdNext ==
    \/ ComputeThreshold
    \/ ComputeThresholdRaised

ThresholdSpec == ThresholdInit /\ [][ThresholdNext]_allVars

(***************************************************************************)
(* The market proxy route, GET /api/kalshi/market/[ticker]: the scoped     *)
(* route (app/api/kalshi/market/[ticker]/route.ts) and the route with the  *)
(* event fallback (part_007).                                              *)
(***************************************************************************)
\* Lines 8-20 of the scoped route
ALLOWED_TICKER_PREFIXES ==
    << <<"K","X","B","T","C">>,
       <<"K","X","E","T","H">>,
       <<"K","X","S","O","L">>,
       <<"K","X","C","R","Y","P","T","O">>,
       <<"K","X","B","C","H">>,
       <<"K","X","A","D","A">>,
       <<"K","X","M","A","T","I","C">>,
       <<"K","X","D","O","T">>,
       <<"K","X","L","I","N","K">>,
       <<"K","X","L","T","C">>,
       <<"K","X","X","R","P">> >>

\* Mutant: the prefix may stand anywhere in the ticker
StartsWithAnywhere(s, prefix) == Includes(s, prefix)

\* String.prototype.startsWith
StartsWith(s, prefix) == Len(prefix) <= Len(s) /\ SubSeq(s, 1, Len(prefix)) = prefix

\* Lines 41-43 of the scoped route
IsAllowed(ticker) ==
    \E k \in 1..Len(ALLOWED_TICKER_PREFIXES) : StartsWith(ticker, ALLOWED_TICKER_PREFIXES[k])

\* The tickers a request may carry: none, an allowed prefix alone, two with a
\* suffix, a foreign one, one with a prefix inside, one cut short, one in
\* lower case
ProxyTickers ==
    {<<>>,
     KXBTC,
     <<"K","X","B","T","C","D","-","1">>,
     <<"K","X","E","T","H","D">>,
     KXOIL,
     <<"X","K","X","B","T","C">>,
     <<"K","X","B","T">>,
     <<"k","x","b","t","c">>}

ProxyRoutes == {"scoped", "fallback"}

\* What the upstream answers: a status, and fetch may throw instead
UpstreamStatuses == {200, 404, 429, 500}

\* NextResponse.json(body, {status})
Respond(p, status, body) ==
    [stage    |-> "responded",
     route    |-> p.route,
     ticker   |-> p.ticker,
     upstream |-> p.upstream,
     answers  |-> p.answers,
     response |-> [status |-> status, body |-> body]]

\* fetch(`${KALSHI_API_BASE}/${collection}/${ticker}`) is issued
Fetching(p, collection, stage) ==
    [stage    |-> stage,
     route    |-> p.route,
     ticker   |-> p.ticker,
     upstream |-> Append(p.upstream, <<collection, p.ticker>>),
     answers  |-> p.answers]

\* The upstream's answer is in
Answered(p, status) == [p EXCEPT !.answers = Append(@, status)]

ProxyInit ==
    /\ CycleInit
    /\ run = 1
    /\ first = NoFirst
    /\ mono = NoMono
    /\ suspended = [status |-> "none"]
    /\ analytics = [stage |-> "idle"]
    /\ tab = [stage |-> "idle"]
    /\ proxy \in {[stage |-> "received", route |-> r, ticker |-> t,
                    upstream |-> <<>>, answers |-> <<>>] :
                      r \in ProxyRoutes, t \in ProxyTickers}

proxyFrame == <<vars, rebuildVars, mono, suspended, analytics, tab>>

\* GET up to the first await: lines 27-55 of the scoped route, lines 11-28 of
\* the route with the fallback
ProxyHandles ==
    /\ proxy.stage = "received"
    /\ proxy' =
          IF proxy.ticker = <<>>
          THEN Respond(proxy, 400, "Market ticker is required")
          ELSE IF proxy.route = "scoped" /\ ~IsAllowed(proxy.ticker)
          THEN Respond(proxy, 422, "not a relevant crypto market")
          ELSE Fetching(proxy, "markets", "awaitMarket")
    /\ UNCHANGED proxyFrame

\* The market request is answered: lines 57-67 of the scoped route, lines
\* 30-52 of the route with the fallback
ProxyMarketAnswers ==
    /\ proxy.stage = "awaitMarket"
    /\ \E status \in UpstreamStatuses :
          proxy' =
            IF status = 200
            THEN Respond(Answered(proxy, status), 200, "data")
            ELSE IF proxy.route = "fallback" /\ status = 404
            THEN Fetching(Answered(proxy, status), "events", "awaitEvent")
            ELSE Respond(Answered(proxy, status), status, "Failed to fetch data")
    /\ UNCHANGED proxyFrame

\* The event request is answered: lines 42-52 of the route with the fallback
ProxyEventAnswers ==
    /\ proxy.stage = "awaitEvent"
    /\ \E status \in UpstreamStatuses :
          proxy' =
            IF status = 200
            THEN Respond(Answered(proxy, status), 200, "data")
            ELSE Respond(Answered(proxy, status), status, "Failed to fetch data")
    /\ UNCHANGED proxyFrame

\* fetch throws: the catch of lines 69-75 (54-60); the answer is noted as 0
ProxyFetchThrows ==
    /\ proxy.stage \in {"awaitMarket", "awaitEvent"}
    /\ proxy' = Respond(Answered(proxy, 0), 500, "Internal Server Error")
    /\ UNCHANGED proxyFrame

ProxyNext ==
    \/ ProxyHandles
    \/ ProxyMarketAnswers
    \/ ProxyEventAnswers
    \/ ProxyFetchThrows

ProxySpec == ProxyInit /\ [][ProxyNext]_allVars

(***************************************************************************)
(* Two runs of the queryFn interleaved at their awaits. One run executes   *)
(* at a time; the other is parked with its locals at the await it reached. *)
(***************************************************************************)
\* The trades and the trade pages of each of the two runs
InterleavedTrades == 1
InterleavedPages == 1

\* The locals of the run that is executing (lines 53-54, 80-130), with the
\* outcome of its promise
Locals ==
    [pc                |-> pc,
     i                 |-> i,
     currentCursor     |-> currentCursor,
     allTrades         |-> allTrades,
     inFlightCursor    |-> inFlightCursor,
     pagesRequested    |-> pagesRequested,
     pageFailed        |-> pageFailed,
     endOfData         |-> endOfData,
     received          |-> received,
     marketTickers     |-> marketTickers,
     marketInfoResults |-> marketInfoResults,
     settled           |-> settled,
     marketInfoCache   |-> marketInfoCache,
     whaleThreshold    |-> whaleThreshold,
     alignedMarkets    |-> alignedMarkets,
     next              |-> next,
     marketsMap        |-> marketsMap,
     query             |-> query]

\* Mutant: the rollup map is one object at module scope, which every run uses
OwnRollupsShared(own, others) == others

\* Line 130: `const marketsMap = new Map()` inside the queryFn; a run sees the
\* map it created, not the one another run is filling
OwnRollups(own, others) == own

\* The run that is executing
CurrentRun == IF suspended.status = "none" THEN 1 ELSE 3 - suspended.run

\* The executing run stands at an await, or its promise has settled
AtAwait == pc \in {"awaitPage", "awaitLookups", "done"}

interleavedFrame == <<rebuildVars, mono, proxy, analytics, tab>>

\* The queryFn is called a second time while the first run waits
StartSecondRun ==
    /\ suspended.status = "none"
    /\ pc \in {"awaitPage", "awaitLookups"}
    /\ suspended' = [status |-> "parked", run |-> 1, locals |-> Locals]
    /\ pc' = "paginate"
    /\ i' = 0
    /\ currentCursor' = <<>>
    /\ allTrades' = <<>>
    /\ inFlightCursor' = <<>>
    /\ pagesRequested' = 0
    /\ pageFailed' = FALSE
    /\ endOfData' = FALSE
    /\ received' = <<>>
    /\ marketTickers' = <<>>
    /\ marketInfoResults' = <<>>
    /\ settled' = <<>>
    /\ marketInfoCache' = <<>>
    /\ whaleThreshold' = 0
    /\ alignedMarkets' = <<>>
    /\ next' = 1
    /\ query' = [status |-> "pending"]
    /\ marketsMap' = OwnRollups(<<>>, marketsMap)
    /\ UNCHANGED interleavedFrame

\* The awaited answer of the parked run is what the event loop delivers next
ResumeOtherRun ==
    /\ suspended.status = "parked"
    /\ suspended.locals.pc # "done"
    /\ AtAwait
    /\ suspended' = [status |-> "parked", run |-> CurrentRun, locals |-> Locals]
    /\ pc' = suspended.locals.pc
    /\ i' = suspended.locals.i
    /\ currentCursor' = suspended.locals.currentCursor
    /\ allTrades' = suspended.locals.allTrades
    /\ inFlightCursor' = suspended.locals.inFlightCursor
    /\ pagesRequested' = suspended.locals.pagesRequested
    /\ pageFailed' = suspended.locals.pageFailed
    /\ endOfData' = suspended.locals.endOfData
    /\ received' = suspended.locals.received
    /\ marketTickers' = suspended.locals.marketTickers
    /\ marketInfoResults' = suspended.locals.marketInfoResults
    /\ settled' = suspended.locals.settled
    /\ marketInfoCache' = suspended.locals.marketInfoCache
    /\ whaleThreshold' = suspended.locals.whaleThreshold
    /\ alignedMarkets' = suspended.locals.alignedMarkets
    /\ next' = suspended.locals.next
    /\ query' = suspended.locals.query
    /\ marketsMap' = OwnRollups(suspended.locals.marketsMap, marketsMap)
    /\ UNCHANGED interleavedFrame

InterleavedNext ==
    \/ RequestTradePage /\ pagesRequested < InterleavedPages /\ UNCHANGED auxVars
    \/ TradePageArrives /\ Len(allTrades') <= InterleavedTrades /\ UNCHANGED auxVars
    \/ TradePageFails /\ UNCHANGED auxVars
    \/ StartLookups /\ UNCHANGED auxVars
    \/ LookupSettles /\ UNCHANGED auxVars
    \/ BuildAndAlign /\ UNCHANGED auxVars
    \/ FoldTrade /\ UNCHANGED auxVars
    \/ Finish /\ UNCHANGED auxVars
    \/ StartSecondRun
    \/ ResumeOtherRun

InterleavedSpec == Init /\ [][InterleavedNext]_allVars

(***************************************************************************)
(* AnalyticsTab (components/WhaleSignalCard.tsx, lines 334-367): a market  *)
(* is selected, its analysis is requested, the answers come in any order.  *)
(***************************************************************************)
\* The calls of handleAnalyze in a session
MaxAnalyses == 3

\* null
Null == [null |-> TRUE]

analyticsFrame == <<vars, rebuildVars, mono, suspended, proxy, tab>>

\* Lines 336-339: the useState initial values; no request is in flight
AnalyticsInit ==
    /\ CycleInit
    /\ run = 1
    /\ first = NoFirst
    /\ mono = NoMono
    /\ suspended = [status |-> "none"]
    /\ proxy = [stage |-> "idle"]
    /\ tab = [stage |-> "idle"]
    /\ analytics = [stage             |-> "mounted",
                    selectedMarket    |-> Null,
                    analysis          |-> Null,
                    isLoadingAnalysis |-> FALSE,
                    error             |-> Null,
                    inFlight          |-> {},
                    calls             |-> 0]

\* Lines 341-353: a market of the list is clicked; the four setters, then the
\* POST of the market to /api/analyze
HandleAnalyze ==
    /\ analytics.stage = "mounted"
    /\ analytics.calls < MaxAnalyses
    /\ \E market \in Tickers :
          analytics' = [analytics EXCEPT
              !.selectedMarket    = market,
              !.isLoadingAnalysis = TRUE,
              !.error             = Null,
              !.analysis          = Null,
              !.inFlight          = @ \cup {[call |-> analytics.calls + 1, market |-> market]},
              !.calls             = @ + 1]
    /\ UNCHANGED analyticsFrame

\* Lines 355-361 and 364-366: a request is answered 2xx; the analysis of the
\* market that was posted is set, then the finally block runs
AnalysisArrives ==
    /\ \E request \in analytics.inFlight :
          analytics' = [analytics EXCEPT
              !.analysis          = [of |-> request.market],
              !.isLoadingAnalysis = FALSE,
              !.inFlight          = @ \ {request}]
    /\ UNCHANGED analyticsFrame

\* Lines 355-358 and 362-366: a request fails; the error is set, then the
\* finally block runs
AnalysisFails ==
    /\ \E request \in analytics.inFlight :
          analytics' = [analytics EXCEPT
              !.error             = [of |-> request.market],
              !.isLoadingAnalysis = FALSE,
              !.inFlight          = @ \ {request}]
    /\ UNCHANGED analyticsFrame

AnalyticsNext ==
    \/ HandleAnalyze
    \/ AnalysisArrives
    \/ AnalysisFails

AnalyticsSpec == AnalyticsInit /\ [][AnalyticsNext]_allVars

(***************************************************************************)
(* MarketTab (part_004): the list of the store cut into pages.             *)
(***************************************************************************)
\* Line 20
ITEMS_PER_PAGE == 8

\* The longest list the store is given
MaxListed == 33

\* Lines 41-42: Math.ceil(total / ITEMS_PER_PAGE)
TotalPages(total) == (total + ITEMS_PER_PAGE - 1) \div ITEMS_PER_PAGE

\* Lines 43-45: the length of filteredMarkets.slice(startIndex, endIndex)
PaginatedCount(total, currentPage) ==
    LET startIndex == (currentPage - 1) * ITEMS_PER_PAGE
        endIndex   == startIndex + ITEMS_PER_PAGE
    IN  IF startIndex >= total THEN 0
        ELSE (IF endIndex < total THEN endIndex ELSE total) - startIndex

tabFrame == <<vars, rebuildVars, mono, suspended, proxy, analytics>>

\* Line 19 and the store's initial state: page 1 of an empty list
TabInit ==
    /\ CycleInit
    /\ run = 1
    /\ first = NoFirst
    /\ mono = NoMono
    /\ suspended = [status |-> "none"]
    /\ proxy = [stage |-> "idle"]
    /\ analytics = [stage |-> "idle"]
    /\ tab = [stage |-> "mounted", total |-> 0, currentPage |-> 1]

\* Lines 33-37: a refresh hands the store a new list; the effect of lines
\* 58-60 does not run, its dependency (the filters) being the same object
MarketsRefreshed ==
    /\ tab.stage = "mounted"
    /\ \E total \in 0..MaxListed :
          /\ total # tab.total
          /\ tab' = [tab EXCEPT !.total = total]
    /\ UNCHANGED tabFrame

\* The store's setFilters: the filtered list changes and the effect of lines
\* 58-60 sets the page to 1
FiltersChanged ==
    /\ tab.stage = "mounted"
    /\ \E total \in 0..MaxListed : tab' = [tab EXCEPT !.total = total, !.currentPage = 1]
    /\ UNCHANGED tabFrame

\* Lines 108-134: the pagination controls are rendered
ControlsShown == tab.total # 0 /\ TotalPages(tab.total) > 1

\* Lines 50-52
HandleNextPage ==
    /\ tab.stage = "mounted"
    /\ ControlsShown
    /\ tab' = [tab EXCEPT !.currentPage =
                  IF @ + 1 < TotalPages(tab.total) THEN @ + 1 ELSE TotalPages(tab.total)]
    /\ UNCHANGED tabFrame

\* Lines 53-55
HandlePreviousPage ==
    /\ tab.stage = "mounted"
    /\ ControlsShown
    /\ tab' = [tab EXCEPT !.currentPage = IF @ - 1 > 1 THEN @ - 1 ELSE 1]
    /\ UNCHANGED tabFrame

TabNext ==
    \/ MarketsRefreshed
    \/ FiltersChanged
    \/ HandleNextPage
    \/ HandlePreviousPage

TabSpec == TabInit /\ [][TabNext]_allVars

(***************************************************************************)
(* Properties.                                                             *)
(***************************************************************************)
\* The lookup table is built (line 98 is passed)
CacheBuilt == pc \in {"fold", "done"}

\* The queryFn threw
CycleFailed == pc = "done" /\ query.status = "error"

\* The queryFn returned
CycleSucceeded == pc = "done" /\ query.status = "success"

\* Pass 2 is over
FoldOver == (pc = "fold" /\ next > Len(alignedMarkets)) \/ CycleSucceeded

\* A trade's notional value in dollars: matched quantity times executed price
Notional(trade) == trade.count * trade.price

\* A market's raw 24-hour product: unit volume times last price, missing as 0
Raw24h(market) ==
    (IF "volume_24h" \in DOMAIN market THEN market.volume_24h ELSE 0)
    * (IF "last_price" \in DOMAIN market THEN market.last_price ELSE 0)

\* The largest raw 24-hour product over the lookup table, 0 for an empty one
MaxRaw24h ==
    LET all == {Raw24h(marketInfoCache[n].value) : n \in 1..Len(marketInfoCache)} \cup {0}
    IN  CHOOSE best \in all : \A r \in all : r <= best

\* The rollups of ticker t in the rollup map
RollupsOf(t) == {n \in 1..Len(marketsMap) : marketsMap[n].key = t}

\* C1: if the very first trade-page request of a cycle fails, the cycle ends
\* in an error state and not in a success with an empty market list.
C1_FirstPageFailureIsError ==
    (pc = "done" /\ pageFailed /\ pagesRequested = 1) => query.status = "error"

\* C2: a trade whose ticker is absent from the lookup table neither creates
\* nor updates a rollup: no rollup of that ticker is in the rollup map or in
\* the output, whatever the trade's notional value.
C2_UnresolvedExcluded ==
    CacheBuilt =>
        \A n \in 1..Len(allTrades) :
            ~MapHas(marketInfoCache, allTrades[n].ticker) =>
                /\ RollupsOf(allTrades[n].ticker) = {}
                /\ CycleSucceeded =>
                      \A k \in 1..Len(query.data.markets) :
                          query.data.markets[k].ticker_symbol # allTrades[n].ticker

\* C2's case: a large trade of an unresolved ticker beside a resolved one
C2_Witness ==
    /\ CycleSucceeded
    /\ Len(marketsMap) = 1
    /\ \E n \in 1..Len(allTrades) :
          /\ ~MapHas(marketInfoCache, allTrades[n].ticker)
          /\ Notional(allTrades[n]) = 600

\* C3: after pass 2 a rollup's whale flag is true exactly when some trade of
\* its ticker has a notional value strictly above the cycle's threshold.
C3_WhaleFlagIffSomeTradeAbove ==
    FoldOver =>
        \A n \in 1..Len(marketsMap) :
            marketsMap[n].value.high_volume
            <=> \E k \in 1..Len(allTrades) :
                    /\ allTrades[k].ticker = marketsMap[n].key
                    /\ Notional(allTrades[k]) * Scale > whaleThreshold

\* C3's case: a trade exactly at a positive threshold leaves the flag down,
\* and a trade above it raises the flag of another rollup
C3_Witness ==
    /\ FoldOver
    /\ whaleThreshold > 0
    /\ \E n \in 1..Len(marketsMap) :
          /\ ~marketsMap[n].value.high_volume
          /\ \E k \in 1..Len(allTrades) :
                /\ allTrades[k].ticker = marketsMap[n].key
                /\ Notional(allTrades[k]) * Scale = whaleThreshold
    /\ \E n \in 1..Len(marketsMap) : marketsMap[n].value.high_volume

\* C4: the threshold is 0.125 times the largest (volume_24h * last_price) / 100
\* over every entry of the lookup table; it is there before the first trade is
\* folded and stays as it is through pass 2 and pass 3.
C4_ThresholdIsEighthOfMax ==
    /\ (CacheBuilt /\ ~CycleFailed) => whaleThreshold * 8 * 100 = MaxRaw24h * Scale
    /\ ~CacheBuilt => (marketsMap = <<>> /\ next = 1)

\* C4's case: the leading market (500 dollars, threshold 62.5) is dropped by
\* pass 3 and another market is listed
C4_Witness ==
    /\ CycleSucceeded
    /\ whaleThreshold * 2 = 125 * Scale
    /\ Len(query.data.markets) = 1
    /\ Raw24h(MapGet(marketInfoCache, query.data.markets[1].ticker_symbol)) < MaxRaw24h

\* C5: when no resolved market has any 24-hour volume, no trade is
\* classified as a whale trade and no rollup has its whale flag set.
C5_NoVolumeNoWhale ==
    (FoldOver /\ MaxRaw24h = 0) =>
        \A n \in 1..Len(marketsMap) : ~marketsMap[n].value.high_volume

\* C6: a cycle issues at most 5 trade-page requests, also when every answer
\* carries a cursor, and then goes on with the trades collected so far.
C6_AtMostFivePages ==
    /\ pagesRequested <= 5
    /\ (pagesRequested = 5 /\ pc \notin {"paginate", "awaitPage"}) =>
          /\ allTrades = received
          /\ (pc = "fold" \/ CycleSucceeded) => Len(alignedMarkets) = Len(received)

\* C6's case: five pages, each with a cursor, and the cycle completes
C6_Witness ==
    /\ CycleSucceeded
    /\ pagesRequested = 5
    /\ ~endOfData
    /\ ~pageFailed
    /\ Len(query.data.markets) >= 1

\* C7: when a page request fails after an earlier page arrived, no further
\* page is requested, the trades of the earlier pages stay in the accumulator
\* in order, and the cycle goes on to resolve and fold them: it does not fail
\* for that.
C7_PartialPagesKept ==
    (pageFailed /\ pagesRequested >= 2) =>
        /\ pc \notin {"paginate", "awaitPage"}
        /\ allTrades = received
        /\ (pc = "fold" \/ CycleSucceeded) =>
              /\ Len(alignedMarkets) = Len(received)
              /\ \A n \in 1..Len(received) :
                    /\ alignedMarkets[n].ticker = received[n].ticker
                    /\ alignedMarkets[n].count = received[n].count
                    /\ alignedMarkets[n].created_time = received[n].created_time
        /\ CycleFailed => ThresholdThrows(marketInfoCache)

\* C7's case: the second page fails, the first page's trade is rolled up
C7_Witness ==
    /\ CycleSucceeded
    /\ pageFailed
    /\ pagesRequested = 2
    /\ Len(allTrades) >= 1
    /\ Len(marketsMap) >= 1

\* C8: whichever lookups fail and in whatever order they settle, the lookup
\* table holds every ticker whose lookup succeeded, with its own market data,
\* and no ticker whose lookup failed; a failed lookup stops no other lookup
\* and does not fail the cycle.
C8_SettledIndependently ==
    CacheBuilt =>
        /\ Len(settled) = Len(marketTickers)
        /\ \A k \in 1..Len(settled) :
              LET ticker == settled[k][1]
                  outcome == settled[k][2]
              IN  /\ outcome.status = "rejected" => ~MapHas(marketInfoCache, ticker)
                  /\ outcome.status = "fulfilled" =>
                        /\ MapHas(marketInfoCache, ticker)
                        /\ "market" \in DOMAIN outcome.value =>
                              MapGet(marketInfoCache, ticker) = outcome.value.market
                        /\ "event" \in DOMAIN outcome.value =>
                              MapGet(marketInfoCache, ticker) = outcome.value.event
        /\ \A t \in MapKeys(marketInfoCache) :
              \E k \in 1..Len(settled) :
                  settled[k][1] = t /\ settled[k][2].status = "fulfilled"
        /\ CycleFailed =>
              \E k \in 1..Len(settled) :
                  /\ settled[k][2].status = "fulfilled"
                  /\ DOMAIN settled[k][2].value \cap {"market", "event"} = {}

\* C8's case: the second lookup settles first and fails, the first succeeds
C8_Witness ==
    /\ CycleSucceeded
    /\ Len(marketTickers) = 2
    /\ settled[1][1] = marketTickers[2]
    /\ settled[1][2].status = "rejected"
    /\ settled[2][2].status = "fulfilled"
    /\ Len(marketsMap) = 1

\* C9: the lookup table never has more entries than there are tickers and
\* never holds an undefined value: every key maps to a record.
C9_TableHoldsOnlyRecords ==
    /\ Len(marketInfoCache) <= Len(marketTickers)
    /\ \A n \in 1..Len(marketInfoCache) : marketInfoCache[n].value # Undefined

\* C10: the fold yields a rollup for a ticker exactly when some trade of the
\* cycle has that ticker and the ticker is in the lookup table, and then
\* exactly one, however many trades have it.
C10_OneRollupPerResolvedTicker ==
    FoldOver =>
        /\ \A t \in Tickers :
              Cardinality(RollupsOf(t)) =
                  IF /\ \E n \in 1..Len(allTrades) : allTrades[n].ticker = t
                     /\ MapHas(marketInfoCache, t)
                  THEN 1 ELSE 0
        /\ \A n \in 1..Len(marketsMap) :
              /\ marketsMap[n].key \in Tickers
              /\ marketsMap[n].value.ticker_symbol = marketsMap[n].key

\* C10's case: two trades of one resolved ticker, one rollup
C10_Witness ==
    /\ FoldOver
    /\ Len(allTrades) = 2
    /\ allTrades[1].ticker = allTrades[2].ticker
    /\ Len(marketsMap) = 1

\* C11: once a rollup's whale flag is true during Pass 2, folding any later
\* trade of the cycle leaves the rollup in the table with the flag true.
C11_WhaleFlagSticks ==
    [][\A t \in Tickers :
          (MapHas(marketsMap, t) /\ MapGet(marketsMap, t).high_volume)
              => (MapHas(marketsMap', t) /\ MapGet(marketsMap', t).high_volume)]_allVars

\* A whale trade made the rollup, a trade below the threshold was folded into
\* it afterwards
C11_Witness ==
    /\ pc = "fold"
    /\ next = 3
    /\ alignedMarkets[1].ticker = alignedMarkets[2].ticker
    /\ IsWhaleTrade(alignedMarkets[1], whaleThreshold)
    /\ ~IsWhaleTrade(alignedMarkets[2], whaleThreshold)
    /\ MapHas(marketsMap, alignedMarkets[2].ticker)
    /\ MapGet(marketsMap, alignedMarkets[2].ticker).high_volume

\* The positions of the trades folded so far into the rollup of ticker t
FoldedInto(t) ==
    {n \in 1..Len(alignedMarkets) :
        /\ n < next
        /\ alignedMarkets[n].ticker = t
        /\ ~SkipsTrade(marketInfoCache, alignedMarkets[n])}

\* The matched quantities of the trades at the positions in S, added up
RECURSIVE SumOfCounts(_)
SumOfCounts(S) ==
    IF S = {} THEN 0
    ELSE LET n == CHOOSE k \in S : TRUE
         IN  alignedMarkets[n].count + SumOfCounts(S \ {n})

\* The first and the last of a non-empty set of positions
First(S) == CHOOSE n \in S : \A k \in S : n <= k
Last(S) == CHOOSE n \in S : \A k \in S : k <= n

\* C12: when two or more trades of a market are folded, the rollup's volume
\* reflects all of them: it is the volume the rollup was created with plus the
\* matched quantity of every trade folded into it afterwards.
C12_VolumeReflectsEveryTrade ==
    (pc = "fold") =>
        \A t \in Tickers :
            Cardinality(FoldedInto(t)) >= 2 =>
                /\ HasProp(MapGet(marketsMap, t), "volume")
                /\ MapGet(marketsMap, t).volume =
                       OrZero(alignedMarkets[First(FoldedInto(t))], "volume")
                       + SumOfCounts(FoldedInto(t) \ {First(FoldedInto(t))})

\* C13: when a trade is folded into an existing rollup, the rollup's last
\* price becomes the executed price of that trade.
C13_LastPriceIsTradePrice ==
    (pc = "fold") =>
        \A t \in Tickers :
            Cardinality(FoldedInto(t)) >= 2 =>
                /\ HasProp(MapGet(marketsMap, t), "last_price")
                /\ MapGet(marketsMap, t).last_price =
                       alignedMarkets[Last(FoldedInto(t))].price

\* The position at which ticker t first appears in the accumulated trades
FirstSeen(t) == First({n \in 1..Len(allTrades) : allTrades[n].ticker = t})

\* C14: the markets view lists the surviving rollups in the order in which
\* their identifiers first appear in the accumulated trade sequence, and its
\* count field is the number of rollups listed.
C14_FirstSeenOrderAndCount ==
    CycleSucceeded =>
        LET markets == query.data.markets
        IN  /\ query.data.count = Len(markets)
            /\ \A k \in 1..Len(markets) :
                   \E n \in 1..Len(allTrades) :
                       allTrades[n].ticker = markets[k].ticker_symbol
            /\ \A k, l \in 1..Len(markets) :
                   k < l => FirstSeen(markets[k].ticker_symbol)
                              < FirstSeen(markets[l].ticker_symbol)

\* Two rollups are listed, and the one first seen is not the first by name
C14_Witness ==
    /\ CycleSucceeded
    /\ Len(query.data.markets) = 2
    /\ query.data.count = 2
    /\ query.data.markets[1].ticker_symbol = KXOIL
    /\ allTrades[1].ticker = KXOIL

\* The title has a character that is not white space
HasVisibleTitle(rollup) == \E k \in 1..Len(rollup.title) : rollup.title[k] \notin WhiteSpace

\* A keyword of the allow-list occurs in the lower-cased string
HasKeyword(s) ==
    \E k \in 1..Len(cryptoKeywords) : \E from \in 1..Len(s) :
        /\ from + Len(cryptoKeywords[k]) - 1 <= Len(s)
        /\ \A j \in 1..Len(cryptoKeywords[k]) :
               ToLowerCase(s)[from + j - 1] = cryptoKeywords[k][j]

\* The two conditions of Pass 3
Survives(rollup) ==
    /\ HasVisibleTitle(rollup)
    /\ rollup.title # UnknownTitle
    /\ HasKeyword(rollup.ticker_symbol) \/ HasKeyword(rollup.title)

\* C15: the output of Pass 3 is exactly the folded rollups with a title that
\* is not empty, not blank and not the placeholder, and with a keyword of the
\* allow-list in the lower-cased identifier or title.
C15_OutputIsExactlyTheSurvivors ==
    CycleSucceeded =>
        LET markets == query.data.markets
        IN  /\ \A k \in 1..Len(markets) :
                   /\ Survives(markets[k])
                   /\ \E n \in 1..Len(marketsMap) : marketsMap[n].value = markets[k]
            /\ \A n \in 1..Len(marketsMap) :
                   Survives(marketsMap[n].value)
                       => \E k \in 1..Len(markets) : markets[k] = marketsMap[n].value
            /\ Len(markets) =
                   Cardinality({n \in 1..Len(marketsMap) : Survives(marketsMap[n].value)})

\* One rollup survives by its title alone, another is dropped for a blank
\* title although its identifier has a keyword
C15_Witness ==
    /\ CycleSucceeded
    /\ Len(marketsMap) = 2
    /\ Len(query.data.markets) = 1
    /\ query.data.markets[1].ticker_symbol = KXOIL
    /\ MapGet(marketsMap, KXBTC).title = TitleBlank

\* C16: the pipeline run twice against the same upstream data, the lookups
\* settling in any order, ends both times with the same outcome: the same
\* rollups in the same order with the same fields, or an error both times.
C16_RebuildIsIdempotent ==
    (run = 2 /\ pc = "done") => query = first.query

\* Both runs list two rollups, and the lookups of the second run settled in
\* the other order
C16_Witness ==
    /\ run = 2
    /\ CycleSucceeded
    /\ Len(query.data.markets) = 2
    /\ Len(settled) = 2
    /\ settled[1] = first.settled[2]
    /\ settled[1] # first.settled[1]

\* C17: for a fixed set of resolved markets, raising one market's 24-hour
\* volume or last price, the others unchanged, never lowers the threshold.
C17_ThresholdIsMonotone ==
    (mono.stage = "compared") => mono.thresholdRaised >= mono.threshold

\* Raising the leader of two markets raised the threshold
C17_Witness ==
    /\ mono.stage = "compared"
    /\ Len(mono.markets) = 2
    /\ mono.threshold > 0
    /\ mono.thresholdRaised > mono.threshold

\* C18: the notional of a trade in the whale check and the 24-hour notional of
\* a market in the threshold are normalised the same way: a quantity at a price
\* has the same notional whether it is a trade's count at its price or a
\* market's 24-hour volume at its last price.
C18_SameNormalisation ==
    \A n \in 1..Len(alignedMarkets) :
        TradeNotionalValue(alignedMarkets[n]) =
            MarketNotionalVolume24h([volume_24h |-> alignedMarkets[n].count,
                                     last_price |-> alignedMarkets[n].price])

\* The markets view and the whale-alerts view as a component reads them
MarketsView == IF query.status = "success" THEN query.data.markets ELSE <<>>
AlertsView == WhaleAlertsResponse(query).data

\* The positions of the markets view whose whale flag is set
Flagged == {n \in 1..Len(MarketsView) : MarketsView[n].high_volume}

\* C19: the whale-alerts view has exactly one alert per rollup of the markets
\* view whose whale flag is set, in the same order, and none for another
\* rollup; its three counts are the number of alerts; every alert has severity
\* 'medium' and confidence 80.
C19_OneAlertPerFlaggedRollup ==
    /\ Len(AlertsView.alerts) = Cardinality(Flagged)
    /\ \A n \in Flagged :
           LET alert == AlertsView.alerts[Cardinality({h \in Flagged : h <= n})]
           IN  /\ alert.ticker = MarketsView[n].ticker_symbol
               /\ alert.id = <<"h", "v", "-">> \o MarketsView[n].id
               /\ alert.timestamp = MarketsView[n].last_update
    /\ \A k \in 1..Len(AlertsView.alerts) :
           /\ AlertsView.alerts[k].severity = "medium"
           /\ AlertsView.alerts[k].confidence = 80
    /\ AlertsView.count = Len(AlertsView.alerts)
    /\ AlertsView.whale_signals_count = Len(AlertsView.alerts)
    /\ AlertsView.high_volume_count = Len(AlertsView.alerts)

\* Two rollups are listed, only the second is flagged, and the one alert is
\* the second rollup's
C19_Witness ==
    /\ CycleSucceeded
    /\ Len(MarketsView) = 2
    /\ Flagged = {2}
    /\ Len(AlertsView.alerts) = 1
    /\ AlertsView.alerts[1].ticker = MarketsView[2].ticker_symbol

\* C20: provided every network call eventually returns or fails, the refresh
\* cycle eventually completes, with a market list or with an error.
C20_CycleCompletes ==
    <>(pc = "done" /\ (query.status = "success" \/ query.status = "error"))

\* A cycle completed with a partial list: a trade page failed, a lookup was
\* rejected, and a rollup is listed all the same
C20_Witness ==
    /\ CycleSucceeded
    /\ pageFailed
    /\ \E n \in 1..Len(marketInfoResults) : marketInfoResults[n] = Rejected
    /\ Len(query.data.markets) = 1

\* The ticker begins with one of the allowed prefixes, character by character
BeginsAllowed(t) ==
    \E k \in 1..Len(ALLOWED_TICKER_PREFIXES) :
        /\ Len(ALLOWED_TICKER_PREFIXES[k]) <= Len(t)
        /\ \A j \in 1..Len(ALLOWED_TICKER_PREFIXES[k]) : t[j] = ALLOWED_TICKER_PREFIXES[k][j]

\* C21: in the scoped market proxy a non-empty ticker that begins with none
\* of the allowed prefixes is answered 422 without any upstream request; an
\* upstream request is issued only for a ticker that begins with one.
C21_OutOfScopeIsRejectedUnfetched ==
    (proxy.stage # "idle" /\ proxy.route = "scoped") =>
        /\ (proxy.ticker # <<>> /\ ~BeginsAllowed(proxy.ticker)) =>
               /\ proxy.upstream = <<>>
               /\ proxy.stage \in {"received", "responded"}
               /\ proxy.stage = "responded" => proxy.response.status = 422
        /\ proxy.upstream # <<>> => BeginsAllowed(proxy.ticker)

\* A ticker with an allowed prefix inside it, not at its start, was rejected
C21_Witness ==
    /\ proxy.stage = "responded"
    /\ proxy.route = "scoped"
    /\ proxy.ticker = <<"X","K","X","B","T","C">>
    /\ proxy.response.status = 422
    /\ proxy.upstream = <<>>

\* C22: a market lookup answered not-found is retried exactly once, as an
\* event lookup, before it is reported failed; a lookup answered with another
\* failure is not retried; no lookup issues more than two upstream requests.
C22_NotFoundFallsBackOnce ==
    (proxy.stage = "responded" /\ proxy.upstream # <<>>) =>
        /\ Len(proxy.upstream) <= 2
        /\ proxy.upstream[1] = <<"markets", proxy.ticker>>
        /\ proxy.answers[1] = 404 =>
               /\ Len(proxy.upstream) = 2
               /\ proxy.upstream[2] = <<"events", proxy.ticker>>
        /\ proxy.answers[1] # 404 => Len(proxy.upstream) = 1

\* C23: the first request carries no cursor; a further request is issued only
\* after the page before it has arrived and its trades are appended, and the
\* cursor it carries is exactly the one that page returned; after a page
\* without a cursor no request is issued; the accumulator is the pages'
\* trades in fetch order.
C23_CursorChainsThePages ==
    /\ allTrades = received
    /\ pc = "awaitPage" =>
           /\ pagesRequested = i + 1
           /\ pagesRequested = 1 => inFlightCursor = <<>>
           /\ pagesRequested > 1 => inFlightCursor = currentCursor
    /\ endOfData => pc \notin {"paginate", "awaitPage"}

\* The market identifiers occurring in the accumulated trades
TickersTraded == {allTrades[n].ticker : n \in 1..Len(allTrades)}

\* C24: in a cycle the resolver issues exactly one lookup for each distinct
\* identifier in the accumulated trades, however many trades name it, and all
\* lookups are started before the result of any is taken.
C24_OneLookupPerIdentifier ==
    /\ pc \in {"paginate", "awaitPage", "resolve"} =>
           marketInfoResults = <<>> /\ settled = <<>>
    /\ pc \in {"awaitLookups", "fold", "done"} =>
           /\ Len(marketInfoResults) = Cardinality(TickersTraded)
           /\ Len(marketTickers) = Cardinality(TickersTraded)
           /\ \A t \in TickersTraded :
                  Cardinality({n \in 1..Len(marketTickers) : marketTickers[n] = t}) = 1
           /\ Len(settled) <= Len(marketInfoResults)

\* Two trades of one market, one lookup, started and not yet settled
C24_Witness ==
    /\ pc = "awaitLookups"
    /\ Len(allTrades) = 2
    /\ allTrades[1].ticker = allTrades[2].ticker
    /\ Len(marketInfoResults) = 1
    /\ marketInfoResults[1] = Pending
    /\ settled = <<>>

\* Pass 2 from trade n on, run without interruption
RECURSIVE FoldFrom(_, _, _, _, _)
FoldFrom(map, aligned, cache, threshold, n) ==
    IF n > Len(aligned) THEN map
    ELSE FoldFrom(FoldOne(map, aligned[n], cache, threshold), aligned, cache, threshold, n + 1)

\* What a run yields when it runs alone and the upstream answers it as it
\* answered the run with locals l: the trades l received, the lookup
\* outcomes l was given
AloneOutcome(l) ==
    LET tickers == MarketTickersOf(l.received)
        results == [n \in 1..Len(tickers) |->
                       l.settled[CHOOSE k \in 1..Len(l.settled) :
                                     l.settled[k][1] = tickers[n]][2]]
        cache   == BuildCache(<<>>, results, tickers, 1)
        aligned == [n \in 1..Len(l.received) |-> AlignTrade(l.received[n], cache)]
    IN  IF ThresholdThrows(cache) THEN [status |-> "error"]
        ELSE [status |-> "success",
              data   |-> MarketsResponse(
                  FoldFrom(<<>>, aligned, cache,
                           WhaleThresholdOf(MaxNotionalVolume(MapValues(cache), 1, 0)), 1))]

\* C26: when two cycles run interleaved at their awaits, each reads and writes
\* only its own accumulator, lookup table and rollup map: the outcome of each
\* is the outcome of a cycle running alone on the same upstream answers.
C26_InterleavedRunsAreIsolated ==
    /\ pc = "done" => query = AloneOutcome(Locals)
    /\ (suspended.status = "parked" /\ suspended.locals.pc = "done") =>
           suspended.locals.query = AloneOutcome(suspended.locals)

\* The first run waited for its lookup while the second ran from start to
\* end; both list a rollup, of different markets
C26_Witness ==
    /\ suspended.status = "parked"
    /\ suspended.run = 2
    /\ suspended.locals.pc = "done"
    /\ suspended.locals.pagesRequested = 1
    /\ suspended.locals.query.status = "success"
    /\ Len(suspended.locals.query.data.markets) = 1
    /\ CycleSucceeded
    /\ Len(query.data.markets) = 1
    /\ query.data.markets[1].ticker_symbol # suspended.locals.query.data.markets[1].ticker_symbol

\* The latest creation time among the trades at the positions in S
LatestCreated(S) ==
    CHOOSE c \in {alignedMarkets[n].created_time : n \in S} :
        \A n \in S : alignedMarkets[n].created_time <= c

\* C27: a rollup's last-update time is the most recent creation time among the
\* trades folded into it, in whatever order the feed lists the trades.
C27_LastUpdateIsLatestTrade ==
    (pc = "fold") =>
        \A t \in Tickers :
            FoldedInto(t) # {} =>
                MapGet(marketsMap, t).last_update = LatestCreated(FoldedInto(t))

\* C28: the whale-alerts view reports status 'success' only when the cycle
\* under it has completed successfully, never while it is loading or failed.
C28_AlertsSucceedOnlyWithTheCycle ==
    WhaleAlertsResponse(query).status = "success" => query.status = "success"

\* C29: in the analytics tab, however selections and answers interleave, the
\* analysis or error shown is that of the market selected now, and the
\* loading indicator is on exactly while the request made for the current
\* selection is outstanding.
C29_AnalysisBelongsToSelection ==
    (analytics.stage = "mounted") =>
        /\ analytics.analysis # Null => analytics.analysis.of = analytics.selectedMarket
        /\ analytics.error # Null => analytics.error.of = analytics.selectedMarket
        /\ analytics.isLoadingAnalysis <=>
               \E request \in analytics.inFlight : request.call = analytics.calls

\* C30: in the markets tab, after any next-page and previous-page clicks and
\* refreshes that change the number of markets, the page number lies between
\* 1 and max(1, total pages), so a list that is not empty never shows an
\* empty page.
C30_PageStaysInRange ==
    (tab.stage = "mounted") =>
        /\ tab.currentPage >= 1
        /\ tab.currentPage <= (IF TotalPages(tab.total) > 1 THEN TotalPages(tab.total) ELSE 1)
        /\ tab.total > 0 => PaginatedCount(tab.total, tab.currentPage) > 0

=============================================================================
